---- MODULE Spec2Model ----
(***************************************************************************)
(* Tower CLI: the background sync daemon (tower_cli/src/daemon/            *)
(* sync-daemon.ts) reconciling a watch list against the filesystem and the *)
(* remote registry, with the watch command (tower_cli/src/commands/        *)
(* watch.ts) acting on the persisted configuration from another process.   *)
(* Beside them: the ConfigManager of the settings, device and sync         *)
(* commands (src/utils/config.ts), the timers of SyncDaemon.start and      *)
(* stop, and the EmbeddingQueue.                                           *)
(*                                                                         *)
(* A path is a sequence of components, so that                             *)
(* filePath.startsWith(dir + path.sep) is a proper-prefix test.            *)
(* One step of a cycle is the code that runs between two network awaits:   *)
(* a JavaScript continuation runs to its next pending promise without      *)
(* being interleaved with timers, I/O callbacks or other processes.        *)
(***************************************************************************)
EXTENDS Integers, Sequences, FiniteSets, TLC

VARIABLES fsDirs, fsFiles, watchList, persisted, fileStates, cyc, started,
          daemon, ff, fsChanges, failures, cli,
          configManager, DEFAULT_CONFIG, configFile, scheduler,
          embeddingQueue

vars == <<fsDirs, fsFiles, watchList, persisted, fileStates, cyc, started,
          daemon, ff, fsChanges, failures, cli,
          configManager, DEFAULT_CONFIG, configFile, scheduler,
          embeddingQueue>>

(* The state of the components beside the daemon: the command-line        *)
(* processes of tower_cli, and the ConfigManager of the settings commands *)
(* with its module constant and its file, the timers of a daemon on which *)
(* start() and stop() are called any number of times, and the embedding   *)
(* queue.                                                                  *)
others ==
    <<cli, configManager, DEFAULT_CONFIG, configFile, scheduler, embeddingQueue>>

----------------------------------------------------------------------------
(* Bounds *)

MaxCycles == 3
MaxFsChanges == 1
MaxFailures == 1
MaxCommands == 2
MaxSyncs == 52
MaxLimit == 3
MaxStarts == 3
MaxTicks == 2
MaxEnqueues == 2

----------------------------------------------------------------------------
(* The filesystem universe: a watched directory d with two files, and a   *)
(* watched single file f.                                                  *)

DirD == <<"d">>
FileA == <<"d", "a">>
FileB == <<"d", "b">>
FileF == <<"f">>

DirPaths == {DirD}
FilePaths == {FileA, FileB, FileF}
AllFiles == <<FileA, FileB, FileF>>

Mtimes == {1, 2}
Sizes == {1, 2}

Stat == [mtime : Mtimes, size : Sizes]
InitialStat == [mtime |-> 1, size |-> 1]

(* filePath.startsWith(dirPath + path.sep) *)
StartsWithSep(filePath, dirPath) ==
    /\ Len(filePath) > Len(dirPath)
    /\ SubSeq(filePath, 1, Len(dirPath)) = dirPath

(* fs.existsSync *)
existsSync(p) == p \in fsDirs \/ p \in DOMAIN fsFiles

(* fs.statSync(p).isFile() *)
isFile(p) == p \in DOMAIN fsFiles

(* globSync(path.join(dirPath, '**/*'), { nodir: true }) *)
globSync(dirPath) ==
    SelectSeq(AllFiles, LAMBDA p : StartsWithSep(p, dirPath) /\ p \in DOMAIN fsFiles)

----------------------------------------------------------------------------
(* fileStates: a JavaScript Map<string, FileState>, iterated in insertion *)
(* order; modelled as a sequence of entries with distinct paths.          *)

MapHas(m, p) == \E n \in 1..Len(m) : m[n].path = p

MapGet(m, p) == m[CHOOSE n \in 1..Len(m) : m[n].path = p]

(* Map.set that leaves the value of an existing key as it is *)
MapSetKeepsOld(m, e) ==
    IF MapHas(m, e.path) THEN m ELSE Append(m, e)

MapSet(m, e) ==
    IF MapHas(m, e.path)
    THEN [n \in 1..Len(m) |-> IF m[n].path = e.path THEN e ELSE m[n]]
    ELSE Append(m, e)

MapDelete(m, p) == SelectSeq(m, LAMBDA e : e.path /= p)

MapKeys(m) == [n \in 1..Len(m) |-> m[n].path]

KeySet(m) == {m[n].path : n \in 1..Len(m)}

----------------------------------------------------------------------------
(* What one cycle has observed of a file (history): not examined, not on  *)
(* disk and without FileState entry, not on disk but with an entry (gone), *)
(* or on disk with the given attributes.                                   *)

Unseen == [kind |-> "unseen", mtime |-> 0, size |-> 0]
Absent == [kind |-> "absent", mtime |-> 0, size |-> 0]
Gone == [kind |-> "gone", mtime |-> 0, size |-> 0]
Seen(st) == [kind |-> "present", mtime |-> st.mtime, size |-> st.size]

NoEntry == [path |-> <<>>, mtime |-> 0, size |-> 0]

ZeroCount == [p \in FilePaths |-> 0]

(* One execution of syncOnce.  pc is the promise the execution is waiting *)
(* on; i, files, j, keys, k, cur are its local variables; the remaining   *)
(* fields record what the execution did.                                   *)
NoCycle ==
    [pc |-> "none", healthy |-> FALSE, aborted |-> FALSE,
     i |-> 0, isDir |-> FALSE, files |-> <<>>, j |-> 0,
     keys |-> <<>>, k |-> 0, cur |-> NoEntry,
     reg |-> ZeroCount, del |-> ZeroCount,
     regOk |-> {}, regFail |-> {}, delFail |-> {},
     obs |-> [p \in FilePaths |-> Unseen],
     unwatched |-> {}, added |-> {}]

Cycles == 1..MaxCycles

Active(c) == cyc[c].pc \in {"probing", "register", "delete"}

ActiveCycles == {c \in Cycles : Active(c)}

----------------------------------------------------------------------------
(* The synchronous run of a cycle from one await to the next.  m is the   *)
(* daemon state the run works on: m.fileStates, the fire-and-forget       *)
(* deletes in flight m.ff, and the running cycle m.cy with identity m.id. *)

Range(s) == {s[n] : n \in 1..Len(s)}

(* syncOnce without its try/catch: an exception rejects its promise *)
FinishUncaught(m, threw) ==
    [m EXCEPT !.cy.pc = IF threw THEN "rejected" ELSE "done", !.cy.aborted = threw,
              !.cy.i = 0, !.cy.isDir = FALSE, !.cy.files = <<>>, !.cy.j = 0,
              !.cy.keys = <<>>, !.cy.k = 0, !.cy.cur = NoEntry]

(* syncOnce returns (normally, or through its catch block, lines 68-70):  *)
(* its promise is fulfilled either way.                                    *)
Finish(m, threw) ==
    [m EXCEPT !.cy.pc = "done", !.cy.aborted = threw,
              !.cy.i = 0, !.cy.isDir = FALSE, !.cy.files = <<>>, !.cy.j = 0,
              !.cy.keys = <<>>, !.cy.k = 0, !.cy.cur = NoEntry]

(* the change test without the comparison of sizes *)
NeedsRegisterMtimeOnly(states, currentState) ==
    \/ ~MapHas(states, currentState.path)
    \/ MapGet(states, currentState.path).mtime /= currentState.mtime

(* syncFile, lines 96-100: the change test *)
NeedsRegister(states, currentState) ==
    \/ ~MapHas(states, currentState.path)
    \/ MapGet(states, currentState.path).mtime /= currentState.mtime
    \/ MapGet(states, currentState.path).size /= currentState.size

(* handleDeletedPath, lines 124-130: the keys under a vanished watched path *)
DeletedPathKeys(states, watchedPath) ==
    SelectSeq(MapKeys(states),
              LAMBDA p : p = watchedPath \/ StartsWithSep(p, watchedPath))

(* cleanupDeletedFiles, lines 143-150: the keys no longer in the directory *)
CleanupKeys(states, dirPath, currentFiles) ==
    SelectSeq(MapKeys(states),
              LAMBDA p : StartsWithSep(p, dirPath) /\ p \notin Range(currentFiles))

(* cleanupDeletedFiles, lines 152-157: each delete is started and not     *)
(* awaited, and the entry is dropped at once.                              *)
cleanupDeletedFiles(m, dirPath, currentFiles) ==
    LET keysToDelete == Range(CleanupKeys(m.fileStates, dirPath, currentFiles))
        gone == {p \in FilePaths : StartsWithSep(p, dirPath) /\ p \notin Range(currentFiles)}
    IN [m EXCEPT
          !.ff = @ \cup {[cycle |-> m.id, path |-> p] : p \in keysToDelete},
          !.fileStates = SelectSeq(@, LAMBDA e : e.path \notin keysToDelete),
          !.cy.del = [p \in FilePaths |-> IF p \in keysToDelete THEN @[p] + 1 ELSE @[p]],
          !.cy.obs = [p \in FilePaths |->
                        IF p \notin gone THEN @[p]
                        ELSE IF MapHas(m.fileStates, p) THEN Gone ELSE Absent]]

RECURSIVE syncPath(_, _), syncFiles(_, _), deleteKeys(_, _)

(* handleDeletedPath, lines 132-139: the loop, from its k-th key, up to   *)
(* the next awaited deleteFileByPath.                                      *)
deleteKeys(m, k) ==
    IF k > Len(m.cy.keys)
    THEN syncPath(m, m.cy.i + 1)
    ELSE [m EXCEPT !.cy.pc = "delete", !.cy.k = k,
                   !.cy.del[m.cy.keys[k]] = @ + 1]

(* syncFile for the j-th file of the current watched path (the loop of    *)
(* syncDirectory, or the single file of syncPath), up to the next awaited *)
(* registerFile.  statSync throws on a file that is gone; nothing below   *)
(* syncOnce catches that.                                                  *)
syncFiles(m, j) ==
    IF j > Len(m.cy.files)
    THEN IF m.cy.isDir
         THEN syncPath(cleanupDeletedFiles(m, watchList[m.cy.i], m.cy.files), m.cy.i + 1)
         ELSE syncPath(m, m.cy.i + 1)
    ELSE LET filePath == m.cy.files[j] IN
         IF filePath \notin DOMAIN fsFiles
         THEN Finish(m, TRUE)
         ELSE LET currentState == [path |-> filePath,
                                   mtime |-> fsFiles[filePath].mtime,
                                   size |-> fsFiles[filePath].size]
                  seen == [m EXCEPT !.cy.obs[filePath] = Seen(fsFiles[filePath])]
              IN IF NeedsRegister(m.fileStates, currentState)
                 THEN [seen EXCEPT !.cy.pc = "register", !.cy.j = j,
                                   !.cy.cur = currentState,
                                   !.cy.reg[filePath] = @ + 1]
                 ELSE syncFiles(seen, j + 1)

(* syncOnce, lines 64-66, from the i-th watch entry; syncPath, lines 73-86 *)
syncPath(m, i) ==
    IF i > Len(watchList)
    THEN Finish(m, FALSE)
    ELSE LET watchedPath == watchList[i] IN
         IF ~existsSync(watchedPath)
         THEN LET gone == {p \in FilePaths : p = watchedPath \/ StartsWithSep(p, watchedPath)}
              IN deleteKeys([m EXCEPT !.cy.i = i, !.cy.isDir = FALSE, !.cy.files = <<>>,
                                      !.cy.j = 0,
                                      !.cy.keys = DeletedPathKeys(m.fileStates, watchedPath),
                                      !.cy.obs = [p \in FilePaths |->
                                                    IF p \notin gone THEN @[p]
                                                    ELSE IF MapHas(m.fileStates, p)
                                                         THEN Gone ELSE Absent]],
                            1)
         ELSE IF isFile(watchedPath)
         THEN syncFiles([m EXCEPT !.cy.i = i, !.cy.isDir = FALSE,
                                  !.cy.files = <<watchedPath>>,
                                  !.cy.keys = <<>>, !.cy.k = 0], 1)
         ELSE syncFiles([m EXCEPT !.cy.i = i, !.cy.isDir = TRUE,
                                  !.cy.files = globSync(watchedPath),
                                  !.cy.keys = <<>>, !.cy.k = 0], 1)

Machine(c) == [fileStates |-> fileStates, ff |-> ff, cy |-> cyc[c], id |-> c]

(* Of a cycle that has returned, only the way it ended is kept; the      *)
(* record of what it did lives as long as the cycle is in progress.        *)
Returned(cy) ==
    [NoCycle EXCEPT !.pc = "done", !.healthy = cy.healthy, !.aborted = cy.aborted]

(* Install the result of a run. *)
Commit(c, m) ==
    /\ fileStates' = m.fileStates
    /\ ff' = m.ff
    /\ cyc' = [cyc EXCEPT ![c] = IF m.cy.pc = "done" THEN Returned(m.cy) ELSE m.cy]

----------------------------------------------------------------------------
(* Initial state: the daemon object has just been constructed.  Its       *)
(* ConfigManager has loaded the persisted configuration once.             *)

(* The command-line processes.  Each has its own ConfigManager, whose     *)
(* constructor loads the configuration file once; config is the watch     *)
(* list of that in-memory copy.  report is what the last command logged   *)
(* (Logger.success, Logger.warning, Logger.error), calls the remote calls *)
(* it issued.                                                              *)
Procs == {1, 2}

NoProcess ==
    [phase |-> "off", config |-> <<>>, commands |-> 0, report |-> "none",
     calls |-> {}]

(* DEFAULT_CONFIG, src/utils/config.ts lines 9-19 (excludePatterns left   *)
(* out: no command of the model changes it)                                *)
DefaultConfig ==
    [watchList |-> <<>>, devices |-> <<>>, syncHistory |-> <<>>,
     settings |-> [autoSync |-> TRUE, syncInterval |-> 5]]

(* No configuration file. *)
Missing == [exists |-> FALSE, content |-> DefaultConfig]

(* The settings commands' ConfigManager before construction.  config says *)
(* which object this.config refers to: the module constant DEFAULT_CONFIG *)
(* itself ("default") or the object JSON.parse returned ("parsed", held   *)
(* in object); shown is what the last history command got.                 *)
NoManager ==
    [phase |-> "off", config |-> "parsed", object |-> DefaultConfig,
     shown |-> <<>>]

ConfigIdle ==
    /\ configManager = NoManager
    /\ DEFAULT_CONFIG = DefaultConfig
    /\ configFile = Missing

(* A SyncDaemon as its timers see it, lines 17-18: intervalId is null (0) *)
(* or the timer the last setInterval returned, timers the interval timers *)
(* that are active in the process, calls the position of every call of    *)
(* start(), ticks the number of timer callbacks run so far.                *)
NewScheduler ==
    [intervalId |-> 0, isRunning |-> FALSE, timers |-> {},
     calls |-> [i \in 1..MaxStarts |-> "none"], ticks |-> 0]

(* new EmbeddingQueue(), lines 513-521.  queue is the Map in insertion    *)
(* order, an item [filePath, id, retries] with id the number of the       *)
(* enqueue that made it; loops holds, for every execution of processQueue *)
(* that awaits processItem, the item it awaits.  attempts, processed and  *)
(* failed count, per item, the calls of processItem and the               *)
(* 'item-processed' and 'item-failed' events; waiter is the promise of    *)
(* waitForCompletion.                                                      *)
Ids == 1..MaxEnqueues

NewQueue ==
    [queue |-> <<>>, processing |-> FALSE, paused |-> FALSE, loops |-> {},
     enqueued |-> 0,
     attempts |-> [id \in Ids |-> 0],
     processed |-> [id \in Ids |-> 0],
     failed |-> [id \in Ids |-> 0],
     waiter |-> "none"]

OthersIdle ==
    /\ cli = [p \in Procs |-> NoProcess]
    /\ ConfigIdle
    /\ scheduler = NewScheduler
    /\ embeddingQueue = NewQueue

(* new SyncDaemon(): no timer, not running; the ConfigManager has found a  *)
(* configuration.  phase is the position of start(), startPromise the     *)
(* state of the promise it returned, unhandled and exited what became of  *)
(* the process.                                                            *)
NewDaemon ==
    [phase |-> "new", intervalId |-> FALSE, isRunning |-> FALSE,
     isInitialized |-> TRUE, startPromise |-> "none",
     unhandled |-> FALSE, exited |-> FALSE]

Init ==
    /\ fsDirs = DirPaths
    /\ fsFiles = [p \in {FileA, FileF} |-> InitialStat]
    /\ watchList = <<DirD, FileF>>
    /\ persisted = watchList
    /\ fileStates = <<>>
    /\ cyc = [c \in Cycles |-> NoCycle]
    /\ started = 0
    /\ daemon = NewDaemon
    /\ ff = {}
    /\ fsChanges = 0
    /\ failures = 0
    /\ OthersIdle

----------------------------------------------------------------------------
(* The scheduler: SyncDaemon.start, the interval timer, SyncDaemon.stop.  *)

(* A call of syncOnce begins: it awaits apiClient.healthCheck(). *)
BeginCycle(c) ==
    cyc' = [d \in Cycles |->
              IF d = c THEN [NoCycle EXCEPT !.pc = "probing",
                                            !.unwatched = Range(watchList) \ Range(persisted),
                                            !.added = Range(persisted) \ Range(watchList)]
              ELSE cyc[d]]

(* start(), lines 24-36: the return at line 27 when there is no           *)
(* configuration, otherwise up to the await of the initial syncOnce       *)
Start ==
    /\ UNCHANGED others
    /\ daemon.phase = "new"
    /\ IF ~daemon.isInitialized
       THEN /\ daemon' = [daemon EXCEPT !.phase = "refused",
                                        !.startPromise = "fulfilled"]
            /\ UNCHANGED <<cyc, started>>
       ELSE /\ started < MaxCycles
            /\ daemon' = [daemon EXCEPT !.phase = "initial", !.isRunning = TRUE,
                                        !.startPromise = "pending"]
            /\ started' = started + 1
            /\ BeginCycle(started + 1)
    /\ UNCHANGED <<fsDirs, fsFiles, watchList, persisted, fileStates, ff,
                   fsChanges, failures>>

(* start() installing the timer only after a healthy initial cycle *)
ResumeStartHealthyOnly(c, cy) ==
    IF cy.pc = "rejected"
    THEN [daemon EXCEPT !.unhandled = TRUE,
                        !.startPromise = IF c = 1 THEN "rejected" ELSE @]
    ELSE IF daemon.phase = "initial" /\ c = 1 /\ cy.pc = "done" /\ cy.healthy
    THEN [daemon EXCEPT !.phase = "started", !.intervalId = TRUE,
                        !.startPromise = "fulfilled"]
    ELSE daemon

(* start(), lines 38-42: resumes when the initial syncOnce has returned   *)
(* and installs the interval timer.  Neither start(), nor its caller      *)
(* (line 164), nor the interval callback (lines 38-40) handles a rejected *)
(* syncOnce promise.                                                       *)
ResumeStart(c, cy) ==
    IF cy.pc = "rejected"
    THEN [daemon EXCEPT !.unhandled = TRUE,
                        !.startPromise = IF c = 1 THEN "rejected" ELSE @]
    ELSE IF daemon.phase = "initial" /\ c = 1 /\ cy.pc = "done"
    THEN [daemon EXCEPT !.phase = "started", !.intervalId = TRUE,
                        !.startPromise = "fulfilled"]
    ELSE daemon

(* the setInterval callback, lines 38-40 *)
Tick ==
    /\ UNCHANGED others
    /\ daemon.intervalId
    /\ started < MaxCycles
    /\ started' = started + 1
    /\ BeginCycle(started + 1)
    /\ UNCHANGED <<fsDirs, fsFiles, watchList, persisted, fileStates, daemon, ff,
                   fsChanges, failures>>

(* stop() that inverts isRunning *)
stopFlip(d) == [d EXCEPT !.intervalId = FALSE, !.isRunning = ~@]

(* stop(), lines 45-52 *)
stop(d) == [d EXCEPT !.intervalId = FALSE, !.isRunning = FALSE]

(* a call of stop() *)
Stop ==
    /\ UNCHANGED others
    /\ daemon' = stop(daemon)
    /\ UNCHANGED <<fsDirs, fsFiles, watchList, persisted, fileStates, cyc, started,
                   ff, fsChanges, failures>>

(* the SIGINT and SIGTERM handlers, lines 166-176, installed once start() *)
(* has been called (line 164): stop(), then process.exit(0)               *)
Signal ==
    /\ UNCHANGED others
    /\ daemon.phase /= "new"
    /\ ~daemon.exited
    /\ daemon' = [stop(daemon) EXCEPT !.exited = TRUE]
    /\ UNCHANGED <<fsDirs, fsFiles, watchList, persisted, fileStates, cyc, started,
                   ff, fsChanges, failures>>

----------------------------------------------------------------------------
(* The steps of a cycle: each is the arrival of the response the cycle    *)
(* awaits, followed by the run to the next await.  No response arrives in *)
(* a process that has exited.                                              *)

(* syncOnce without the return at line 59 *)
HealthGateOpen(m, isBackendRunning) ==
    syncPath([m EXCEPT !.cy.healthy = isBackendRunning], 1)

(* syncOnce, lines 56-60 *)
HealthGate(m, isBackendRunning) ==
    IF ~isBackendRunning
    THEN Finish(m, FALSE)
    ELSE syncPath([m EXCEPT !.cy.healthy = TRUE], 1)

(* syncFile storing the state whether or not registerFile threw *)
AfterRegisterAlwaysStores(m, ok) ==
    IF ok
    THEN [m EXCEPT !.fileStates = MapSet(@, m.cy.cur),
                   !.cy.regOk = @ \cup {m.cy.cur.path}]
    ELSE [m EXCEPT !.fileStates = MapSet(@, m.cy.cur),
                   !.cy.regFail = @ \cup {m.cy.cur.path}]

(* syncFile, lines 104-108: registerFile resolved or threw *)
AfterRegister(m, ok) ==
    IF ok
    THEN [m EXCEPT !.fileStates = MapSet(@, m.cy.cur),
                   !.cy.regOk = @ \cup {m.cy.cur.path}]
    ELSE [m EXCEPT !.cy.regFail = @ \cup {m.cy.cur.path}]

(* apiClient.deleteFileByPath(filePath): the promise it returns is either *)
(* fulfilled (TRUE) or rejected (FALSE).                                   *)
deleteFileByPath == BOOLEAN

(* handleDeletedPath, lines 134-138: deleteFileByPath resolved or threw *)
AfterDelete(m, ok) ==
    IF ok
    THEN [m EXCEPT !.fileStates = MapDelete(@, m.cy.keys[m.cy.k])]
    ELSE [m EXCEPT !.cy.delFail = @ \cup {m.cy.keys[m.cy.k]}]

(* The run of cycle c when the promise it awaits settles: resolved with  *)
(* true / fulfilled (ok), or resolved with false / rejected (~ok).         *)
Resume(c, ok) ==
    CASE cyc[c].pc = "probing" -> HealthGate(Machine(c), ok)
      [] cyc[c].pc = "register" -> syncFiles(AfterRegister(Machine(c), ok), cyc[c].j + 1)
      [] cyc[c].pc = "delete" -> deleteKeys(AfterDelete(Machine(c), ok), cyc[c].k + 1)

HealthResp(c, isBackendRunning) ==
    /\ UNCHANGED others
    /\ ~daemon.exited
    /\ cyc[c].pc = "probing"
    /\ ~isBackendRunning => failures < MaxFailures
    /\ \E m \in {Resume(c, isBackendRunning)} :
         /\ Commit(c, m)
         /\ daemon' = ResumeStart(c, m.cy)
    /\ failures' = IF isBackendRunning THEN failures ELSE failures + 1
    /\ UNCHANGED <<fsDirs, fsFiles, watchList, persisted, started, fsChanges>>

RegisterResp(c, ok) ==
    /\ UNCHANGED others
    /\ ~daemon.exited
    /\ cyc[c].pc = "register"
    /\ ~ok => failures < MaxFailures
    /\ \E m \in {Resume(c, ok)} :
         /\ Commit(c, m)
         /\ daemon' = ResumeStart(c, m.cy)
    /\ failures' = IF ok THEN failures ELSE failures + 1
    /\ UNCHANGED <<fsDirs, fsFiles, watchList, persisted, started, fsChanges>>

DeleteResp(c, ok) ==
    /\ UNCHANGED others
    /\ ~daemon.exited
    /\ cyc[c].pc = "delete"
    /\ ~ok => failures < MaxFailures
    /\ \E m \in {Resume(c, ok)} :
         /\ Commit(c, m)
         /\ daemon' = ResumeStart(c, m.cy)
    /\ failures' = IF ok THEN failures ELSE failures + 1
    /\ UNCHANGED <<fsDirs, fsFiles, watchList, persisted, started, fsChanges>>

(* cleanupDeletedFiles, lines 153-155: a delete that was not awaited      *)
(* settles; its .catch handler only logs.                                  *)
CleanupDeleteResp(x, ok) ==
    /\ UNCHANGED others
    /\ ~daemon.exited
    /\ x \in ff
    /\ ~ok => failures < MaxFailures
    /\ ff' = ff \ {x}
    /\ failures' = IF ok THEN failures ELSE failures + 1
    /\ UNCHANGED <<fsDirs, fsFiles, watchList, persisted, fileStates, cyc, started,
                   daemon, fsChanges>>

----------------------------------------------------------------------------
(* The environment: other programs change the watched files. *)

(* A change of the filesystem is modelled while the daemon can still look *)
(* at it: after start(), and until the last cycle has returned.            *)
Observable ==
    /\ daemon.phase /= "new"
    /\ started < MaxCycles \/ ActiveCycles /= {}

ParentExists(p) == \A d \in DirPaths : StartsWithSep(p, d) => d \in fsDirs

WriteFile(p, st) ==
    /\ UNCHANGED others
    /\ fsChanges < MaxFsChanges
    /\ Observable
    /\ ParentExists(p)
    /\ p \in DOMAIN fsFiles => fsFiles[p] /= st
    /\ fsFiles' = [q \in DOMAIN fsFiles \cup {p} |-> IF q = p THEN st ELSE fsFiles[q]]
    /\ fsChanges' = fsChanges + 1
    /\ UNCHANGED <<fsDirs, watchList, persisted, fileStates, cyc, started, daemon, ff,
                   failures>>

UnlinkFile(p) ==
    /\ UNCHANGED others
    /\ fsChanges < MaxFsChanges
    /\ Observable
    /\ p \in DOMAIN fsFiles
    /\ fsFiles' = [q \in DOMAIN fsFiles \ {p} |-> fsFiles[q]]
    /\ fsChanges' = fsChanges + 1
    /\ UNCHANGED <<fsDirs, watchList, persisted, fileStates, cyc, started, daemon, ff,
                   failures>>

RemoveDir(d) ==
    /\ UNCHANGED others
    /\ fsChanges < MaxFsChanges
    /\ Observable
    /\ d \in fsDirs
    /\ fsDirs' = fsDirs \ {d}
    /\ fsFiles' = [q \in {r \in DOMAIN fsFiles : ~StartsWithSep(r, d)} |-> fsFiles[q]]
    /\ fsChanges' = fsChanges + 1
    /\ UNCHANGED <<watchList, persisted, fileStates, cyc, started, daemon, ff,
                   failures>>

----------------------------------------------------------------------------
(* The watch command, run as its own process with its own ConfigManager.  *)

(* ConfigManager.removeWatch, config.ts lines 74-80 *)
SpliceOut(list, itemPath) == SelectSeq(list, LAMBDA w : w /= itemPath)

(* deleteFromBackend, watch.ts lines 124-147: the paths it deletes *)
DeleteTargets(filePath) ==
    IF existsSync(filePath) /\ ~isFile(filePath)
    THEN Range(globSync(filePath))
    ELSE {filePath}

(* removeWatch, watch.ts lines 90-151 *)
RemoveWatch(w, isBackendRunning, failing) ==
    /\ UNCHANGED others
    /\ w \in Range(persisted)
    /\ persisted' = SpliceOut(persisted, w)
    /\ failing \subseteq DeleteTargets(w)
    /\ failures + Cardinality(failing) + (IF isBackendRunning THEN 0 ELSE 1) <= MaxFailures
    /\ ~isBackendRunning => failing = {}
    /\ failures' = failures + Cardinality(failing) + (IF isBackendRunning THEN 0 ELSE 1)
    /\ UNCHANGED <<fsDirs, fsFiles, watchList, fileStates, cyc, started, daemon, ff,
                   fsChanges>>

----------------------------------------------------------------------------
(* The watch-list commands of a command-line process, on the in-memory    *)
(* configuration of its own ConfigManager and the configuration file.     *)

(* The paths given to the commands: d, d/a and f exist, d/b does not. *)
WatchPaths == DirPaths \cup FilePaths

(* ConfigManager.load, config.ts lines 25-32: the watch list in the file *)
load == persisted

(* new ConfigManager(), config.ts lines 12-17, at the import of watch.ts  *)
(* (line 13): the process starts and reads the configuration file.         *)
CliStart(p) ==
    /\ UNCHANGED <<configManager, DEFAULT_CONFIG, configFile, scheduler, embeddingQueue>>
    /\ cli[p].phase = "off"
    /\ cli' = [cli EXCEPT ![p] = [NoProcess EXCEPT !.phase = "up", !.config = load]]
    /\ UNCHANGED <<fsDirs, fsFiles, watchList, persisted, fileStates, cyc, started,
                   daemon, ff, fsChanges, failures>>

(* Array.prototype.some with item => item.path === absolutePath *)
some(list, absolutePath) == \E i \in 1..Len(list) : list[i] = absolutePath

(* Array.prototype.push *)
push(list, item) == Append(list, item)

(* Array.prototype.findIndex with item => item.path === itemPath: the     *)
(* first index (from 0) of an entry with that path, or -1                  *)
findIndex(list, itemPath) ==
    IF some(list, itemPath)
    THEN (CHOOSE i \in 1..Len(list) :
              /\ list[i] = itemPath
              /\ \A j \in 1..(i - 1) : list[j] /= itemPath) - 1
    ELSE -1

(* splice that removes the last entry whatever the index *)
spliceLast(list, index) == SubSeq(list, 1, Len(list) - 1)

(* Array.prototype.splice(index, 1), index from 0 *)
splice(list, index) ==
    [i \in 1..(Len(list) - 1) |-> IF i <= index THEN list[i] ELSE list[i + 1]]

(* addWatch without the test of lines 31-35 *)
NeverWatching(watchList_, absolutePath) == FALSE

(* addWatch, watch.ts lines 31-32 *)
AlreadyWatching(watchList_, absolutePath) == some(watchList_, absolutePath)

(* registerWithBackend, watch.ts lines 52-88: the register calls it makes *)
registerWithBackend(filePath, isBackendRunning) ==
    IF ~isBackendRunning THEN {}
    ELSE IF isFile(filePath) THEN {<<"register", filePath>>}
    ELSE {<<"register", f>> : f \in Range(globSync(filePath))}

(* deleteFromBackend, watch.ts lines 116-151: the delete calls it makes *)
deleteFromBackend(filePath, isBackendRunning) ==
    IF ~isBackendRunning THEN {}
    ELSE {<<"delete", f>> : f \in DeleteTargets(filePath)}

(* A command of process p returns, having left config in memory, logged   *)
(* report and issued calls.                                                *)
Returns(p, config, report, calls) ==
    /\ cli[p].phase = "up"
    /\ cli[p].commands < MaxCommands
    /\ cli' = [cli EXCEPT ![p] = [phase |-> "up", config |-> config,
                                  commands |-> cli[p].commands + 1,
                                  report |-> report, calls |-> calls]]

(* addWatch, watch.ts lines 15-50, with ConfigManager.addWatch and save,  *)
(* config.ts lines 62-68 and 34-37                                         *)
addWatch(p, filePath, isBackendRunning) ==
    /\ UNCHANGED <<configManager, DEFAULT_CONFIG, configFile, scheduler, embeddingQueue>>
    /\ IF ~existsSync(filePath)
       THEN Returns(p, cli[p].config, "error", {}) /\ UNCHANGED persisted
       ELSE IF AlreadyWatching(cli[p].config, filePath)
       THEN Returns(p, cli[p].config, "warning", {}) /\ UNCHANGED persisted
       ELSE /\ Returns(p, push(cli[p].config, filePath), "success",
                       registerWithBackend(filePath, isBackendRunning))
            /\ persisted' = push(cli[p].config, filePath)
    /\ UNCHANGED <<fsDirs, fsFiles, watchList, fileStates, cyc, started,
                   daemon, ff, fsChanges, failures>>

(* removeWatch, watch.ts lines 90-114, with ConfigManager.removeWatch and *)
(* save, config.ts lines 70-81 and 34-37                                   *)
removeWatch(p, filePath, isBackendRunning) ==
    /\ UNCHANGED <<configManager, DEFAULT_CONFIG, configFile, scheduler, embeddingQueue>>
    /\ \E index \in {findIndex(cli[p].config, filePath)} :
          IF index /= -1
          THEN /\ Returns(p, splice(cli[p].config, index), "success",
                          deleteFromBackend(filePath, isBackendRunning))
               /\ persisted' = splice(cli[p].config, index)
          ELSE Returns(p, cli[p].config, "error", {}) /\ UNCHANGED persisted
    /\ UNCHANGED <<fsDirs, fsFiles, watchList, fileStates, cyc, started,
                   daemon, ff, fsChanges, failures>>

(* ConfigManager.clearWatchList, config.ts lines 90-96 *)
clearWatchList(p) ==
    /\ UNCHANGED <<configManager, DEFAULT_CONFIG, configFile, scheduler, embeddingQueue>>
    /\ Returns(p, <<>>, "success", {})
    /\ persisted' = <<>>
    /\ UNCHANGED <<fsDirs, fsFiles, watchList, fileStates, cyc, started,
                   daemon, ff, fsChanges, failures>>

----------------------------------------------------------------------------
(* The ConfigManager of the settings, device and sync commands            *)
(* (src/utils/config.ts).  this.config is a reference: load returns the   *)
(* module constant DEFAULT_CONFIG itself when there is no file, and reset *)
(* assigns it, so that a later change through this.config changes         *)
(* DEFAULT_CONFIG.                                                         *)

(* The state of the daemon and of its filesystem. *)
daemonVars ==
    <<fsDirs, fsFiles, watchList, persisted, fileStates, cyc, started, daemon,
      ff, fsChanges, failures>>

(* Values of the commands' arguments. *)
Devices == {"dev1"}
SettingValues == [autoSync |-> BOOLEAN, syncInterval |-> {5, 15}]

(* The object this.config refers to. *)
TheConfig ==
    IF configManager.config = "default" THEN DEFAULT_CONFIG
    ELSE configManager.object

(* ConfigManager.save, lines 51-54, with JSON.stringify *)
save(config) == configFile' = [exists |-> TRUE, content |-> config]

(* new ConfigManager(), lines 24-26, with load, lines 34-49 *)
ConfigStart ==
    /\ configManager.phase = "off"
    /\ IF ~configFile.exists
       THEN /\ save(DEFAULT_CONFIG)
            /\ configManager' = [configManager EXCEPT !.phase = "up", !.config = "default"]
       ELSE /\ configManager' = [configManager EXCEPT !.phase = "up", !.config = "parsed",
                                                      !.object = configFile.content]
            /\ UNCHANGED configFile
    /\ UNCHANGED <<DEFAULT_CONFIG, cli, scheduler, embeddingQueue, daemonVars>>

(* A method changes the object this.config refers to and saves it. *)
Mutate(config) ==
    /\ configManager.phase = "up"
    /\ IF configManager.config = "default"
       THEN DEFAULT_CONFIG' = config /\ UNCHANGED configManager
       ELSE configManager' = [configManager EXCEPT !.object = config]
            /\ UNCHANGED DEFAULT_CONFIG
    /\ save(config)
    /\ UNCHANGED <<cli, scheduler, embeddingQueue, daemonVars>>

(* ConfigManager.addWatch, lines 57-60 *)
ConfigAddWatch(item) ==
    /\ Len(TheConfig.watchList) < MaxCommands
    /\ Mutate([TheConfig EXCEPT !.watchList = push(@, item)])

(* ConfigManager.addDevice, lines 82-85 *)
addDevice(device) ==
    /\ Len(TheConfig.devices) < MaxCommands
    /\ Mutate([TheConfig EXCEPT !.devices = push(@, device)])

(* ConfigManager.setSetting, lines 132-135 *)
setSetting(key, value) ==
    /\ key \in DOMAIN TheConfig.settings
    /\ Mutate([TheConfig EXCEPT !.settings = [@ EXCEPT ![key] = value]])

(* Array.prototype.unshift *)
unshift(list, item) == <<item>> \o list

(* Array.prototype.slice(0, end), end >= 0 *)
slice(list, end) == SubSeq(list, 1, IF end < Len(list) THEN end ELSE Len(list))

(* The number of history entries kept, line 115 *)
HistoryLimit == 50

(* ConfigManager.addSyncHistory, lines 112-119, on the history list *)
addSyncHistory(syncHistory_, history) ==
    IF Len(unshift(syncHistory_, history)) > HistoryLimit
    THEN slice(unshift(syncHistory_, history), HistoryLimit)
    ELSE unshift(syncHistory_, history)

(* ConfigManager.getSyncHistory, lines 121-125: limit ? slice : all; a    *)
(* limit of 0 is falsy                                                     *)
getSyncHistory(syncHistory_, limit) ==
    IF limit /= 0 THEN slice(syncHistory_, limit) ELSE syncHistory_

(* The entries of the history are told apart by their timestamps; the     *)
(* n-th call of sync adds the entry with timestamp n.                      *)
Timestamp(syncHistory_) == IF syncHistory_ = <<>> THEN 0 ELSE syncHistory_[1]

(* sync, src/commands/sync.ts lines 36-42 and 48-54 *)
sync ==
    /\ Timestamp(TheConfig.syncHistory) < MaxSyncs
    /\ Mutate([TheConfig EXCEPT
                  !.syncHistory = addSyncHistory(@, Timestamp(@) + 1)])

(* syncHistory, src/commands/sync.ts lines 110-112 *)
syncHistory(limit) ==
    /\ configManager.phase = "up"
    /\ configManager' =
           [configManager EXCEPT !.shown = getSyncHistory(TheConfig.syncHistory, limit)]
    /\ UNCHANGED <<DEFAULT_CONFIG, configFile, cli, scheduler, embeddingQueue, daemonVars>>

(* ConfigManager.reset, lines 141-144, called by resetConfig once the     *)
(* user has confirmed                                                      *)
reset ==
    /\ configManager.phase = "up"
    /\ configManager' = [configManager EXCEPT !.config = "default"]
    /\ save(DEFAULT_CONFIG)
    /\ UNCHANGED <<DEFAULT_CONFIG, cli, scheduler, embeddingQueue, daemonVars>>

----------------------------------------------------------------------------
(* start() and stop() called any number of times on one configured        *)
(* SyncDaemon.  The cycle start() awaits is one pending promise here: what *)
(* it does to the files has no part in the timers.                         *)

(* start(), lines 24-36: up to the await of the initial syncOnce *)
StartCall(i) ==
    /\ scheduler.calls[i] = "none"
    /\ \A j \in 1..(i - 1) : scheduler.calls[j] /= "none"
    /\ scheduler' = [scheduler EXCEPT !.isRunning = TRUE, !.calls[i] = "awaiting"]
    /\ UNCHANGED <<cli, configManager, DEFAULT_CONFIG, configFile, embeddingQueue,
                   daemonVars>>

(* start(), lines 38-42: the initial syncOnce has returned; setInterval   *)
(* creates a timer (named after the call) and intervalId is assigned       *)
StartContinue(i) ==
    /\ scheduler.calls[i] = "awaiting"
    /\ scheduler' = [scheduler EXCEPT !.intervalId = i, !.timers = @ \cup {i},
                                      !.calls[i] = "returned"]
    /\ UNCHANGED <<cli, configManager, DEFAULT_CONFIG, configFile, embeddingQueue,
                   daemonVars>>

(* stop(), lines 45-52 *)
StopCall ==
    /\ scheduler' =
           IF scheduler.intervalId /= 0
           THEN [scheduler EXCEPT !.timers = @ \ {scheduler.intervalId},
                                  !.intervalId = 0, !.isRunning = FALSE]
           ELSE [scheduler EXCEPT !.isRunning = FALSE]
    /\ UNCHANGED <<cli, configManager, DEFAULT_CONFIG, configFile, embeddingQueue,
                   daemonVars>>

(* An active interval timer fires, lines 38-40: its callback starts a     *)
(* syncOnce                                                                *)
TimerFires(t) ==
    /\ t \in scheduler.timers
    /\ scheduler.ticks < MaxTicks
    /\ scheduler' = [scheduler EXCEPT !.ticks = @ + 1]
    /\ UNCHANGED <<cli, configManager, DEFAULT_CONFIG, configFile, embeddingQueue,
                   daemonVars>>

----------------------------------------------------------------------------
(* The embedding queue (EmbeddingQueue).  A step is the code that runs    *)
(* between two awaits: a call of a method together with the part of       *)
(* processQueue it runs, or the continuation of processQueue when the     *)
(* processItem it awaits has settled.  The operators below take and give  *)
(* the state of the queue.                                                 *)

(* The files given to enqueue. *)
QueuePaths == {FileA, FileF}

maxRetries == 3

(* this.queue.has(filePath) *)
QueueHas(q, filePath) == \E i \in 1..Len(q.queue) : q.queue[i].filePath = filePath

(* this.queue.set(filePath, item): a present key keeps its place *)
QueueSet(q, item) ==
    IF QueueHas(q, item.filePath)
    THEN [q EXCEPT !.queue = [i \in 1..Len(q.queue) |->
                                 IF q.queue[i].filePath = item.filePath
                                 THEN item ELSE q.queue[i]]]
    ELSE [q EXCEPT !.queue = Append(@, item)]

(* this.emit(event), as the listeners of waitForCompletion see it         *)
(* (checkCompletion, lines 619-626)                                        *)
emit(q) ==
    IF q.waiter = "pending" /\ ~q.processing /\ Len(q.queue) = 0
    THEN [q EXCEPT !.waiter = "resolved"]
    ELSE q

(* the loop of processQueue without the test of paused *)
RunLoopWhilePaused(q) ==
    IF Len(q.queue) > 0
    THEN [q EXCEPT !.queue = Tail(@),
                   !.loops = @ \cup {Head(q.queue)},
                   !.attempts[Head(q.queue).id] = @ + 1]
    ELSE emit([q EXCEPT !.processing = FALSE])

(* processQueue, lines 572-599: the loop from its test to the next await  *)
(* of processItem, or to the end of processQueue                           *)
RunLoop(q) ==
    IF Len(q.queue) > 0 /\ ~q.paused
    THEN [q EXCEPT !.queue = Tail(@),
                   !.loops = @ \cup {Head(q.queue)},
                   !.attempts[Head(q.queue).id] = @ + 1]
    ELSE IF Len(q.queue) = 0
    THEN emit([q EXCEPT !.processing = FALSE])
    ELSE [q EXCEPT !.processing = FALSE]

(* processQueue, line 568 *)
CanStart(q) == ~(q.processing \/ q.paused)

(* processQueue, lines 567-600, from its call *)
processQueue(q) ==
    IF CanStart(q) THEN RunLoop([q EXCEPT !.processing = TRUE]) ELSE q

(* enqueue, lines 523-537 *)
enqueue(q, filePath) ==
    IF QueueHas(q, filePath) THEN q
    ELSE IF ~q.processing /\ ~q.paused
    THEN processQueue(
             QueueSet([q EXCEPT !.enqueued = @ + 1],
                      [filePath |-> filePath, id |-> q.enqueued + 1, retries |-> 0]))
    ELSE QueueSet([q EXCEPT !.enqueued = @ + 1],
                  [filePath |-> filePath, id |-> q.enqueued + 1, retries |-> 0])

(* pause, lines 539-543 *)
pause(q) == IF q.paused THEN q ELSE [q EXCEPT !.paused = TRUE]

(* resume, lines 545-553 *)
resume(q) ==
    IF ~q.paused THEN q
    ELSE IF ~q.processing /\ Len(q.queue) > 0
    THEN processQueue([q EXCEPT !.paused = FALSE])
    ELSE [q EXCEPT !.paused = FALSE]

(* clear, lines 634-636 *)
clear(q) == [q EXCEPT !.queue = <<>>]

(* waitForCompletion, lines 615-632 *)
waitForCompletion(q) ==
    IF ~q.processing /\ Len(q.queue) = 0
    THEN [q EXCEPT !.waiter = "resolved"]
    ELSE [q EXCEPT !.waiter = "pending"]

(* the retry test with <= in place of < *)
ShouldRetryOnceMore(item) == item.retries <= maxRetries

(* processQueue, line 585 *)
ShouldRetry(item) == item.retries < maxRetries

(* processQueue, lines 580-593 and on: the processItem awaited for item   *)
(* has settled, fulfilled (ok) or rejected                                 *)
itemSettled(q, item, ok) ==
    IF ok
    THEN RunLoop(emit([q EXCEPT !.loops = @ \ {item}, !.processed[item.id] = @ + 1]))
    ELSE IF ShouldRetry(item)
    THEN RunLoop(QueueSet([q EXCEPT !.loops = @ \ {item}],
                          [item EXCEPT !.retries = @ + 1]))
    ELSE RunLoop(emit([q EXCEPT !.loops = @ \ {item}, !.failed[item.id] = @ + 1]))

(* The steps of the queue leave the other components alone. *)
QueueFrame ==
    UNCHANGED <<cli, configManager, DEFAULT_CONFIG, configFile, scheduler,
                daemonVars>>

Enqueue(filePath) ==
    /\ embeddingQueue.enqueued < MaxEnqueues
    /\ embeddingQueue' = enqueue(embeddingQueue, filePath)
    /\ QueueFrame

Pause ==
    /\ embeddingQueue' = pause(embeddingQueue)
    /\ QueueFrame

ResumeQueue ==
    /\ embeddingQueue' = resume(embeddingQueue)
    /\ QueueFrame

Clear ==
    /\ embeddingQueue' = clear(embeddingQueue)
    /\ QueueFrame

WaitForCompletion ==
    /\ embeddingQueue.waiter /= "pending"
    /\ embeddingQueue' = waitForCompletion(embeddingQueue)
    /\ QueueFrame

ItemSettled(item, ok) ==
    /\ item \in embeddingQueue.loops
    /\ embeddingQueue' = itemSettled(embeddingQueue, item, ok)
    /\ QueueFrame

----------------------------------------------------------------------------

Next ==
    \/ Start
    \/ Tick
    \/ \E c \in Cycles, ok \in BOOLEAN : HealthResp(c, ok)
    \/ \E c \in Cycles, ok \in BOOLEAN : RegisterResp(c, ok)
    \/ \E c \in Cycles, ok \in deleteFileByPath : DeleteResp(c, ok)
    \/ \E x \in ff, ok \in deleteFileByPath : CleanupDeleteResp(x, ok)
    \/ \E p \in FilePaths, st \in Stat : WriteFile(p, st)
    \/ \E p \in FilePaths : UnlinkFile(p)
    \/ \E d \in DirPaths : RemoveDir(d)

Spec == Init /\ [][Next]_vars

(* The daemon over an undisturbed filesystem, with the watch command run  *)
(* beside it once the daemon has been started.                             *)
NextWatch ==
    \/ Start
    \/ Tick
    \/ \E c \in Cycles, ok \in BOOLEAN : HealthResp(c, ok)
    \/ \E c \in Cycles, ok \in BOOLEAN : RegisterResp(c, ok)
    \/ \E w \in DirPaths \cup FilePaths, ok \in BOOLEAN, failing \in SUBSET FilePaths :
          daemon.phase /= "new" /\ RemoveWatch(w, ok, failing)

SpecWatch == Init /\ [][NextWatch]_vars

(* Two command-line processes working on the same configuration file. *)
NextCli ==
    \/ \E p \in Procs : CliStart(p)
    \/ \E p \in Procs, filePath \in WatchPaths, ok \in BOOLEAN : addWatch(p, filePath, ok)
    \/ \E p \in Procs, filePath \in WatchPaths, ok \in BOOLEAN : removeWatch(p, filePath, ok)
    \/ \E p \in Procs : clearWatchList(p)

SpecCli == Init /\ [][NextCli]_vars

(* The settings, device and sync commands of one process, started with   *)
(* no configuration file or with the file an earlier run has left.         *)
SavedConfig ==
    [watchList |-> <<DirD>>, devices |-> <<"dev1">>, syncHistory |-> <<>>,
     settings |-> [autoSync |-> FALSE, syncInterval |-> 5]]

InitConfig ==
    /\ fsDirs = DirPaths
    /\ fsFiles = [p \in {FileA, FileF} |-> InitialStat]
    /\ watchList = <<DirD, FileF>>
    /\ persisted = watchList
    /\ fileStates = <<>>
    /\ cyc = [c \in Cycles |-> NoCycle]
    /\ started = 0
    /\ daemon = NewDaemon
    /\ ff = {}
    /\ fsChanges = 0
    /\ failures = 0
    /\ cli = [p \in Procs |-> NoProcess]
    /\ configManager = NoManager
    /\ DEFAULT_CONFIG = DefaultConfig
    /\ configFile \in {Missing, [exists |-> TRUE, content |-> SavedConfig]}
    /\ scheduler = NewScheduler
    /\ embeddingQueue = NewQueue

NextConfig ==
    \/ ConfigStart
    \/ \E item \in DirPaths : ConfigAddWatch(item)
    \/ \E device \in Devices : addDevice(device)
    \/ \E key \in DOMAIN SettingValues : \E value \in SettingValues[key] :
          setSetting(key, value)
    \/ reset

SpecConfig == InitConfig /\ [][NextConfig]_vars

(* The sync and history commands of one process. *)
NextHistory ==
    \/ ConfigStart
    \/ sync
    \/ \E limit \in 0..MaxLimit : syncHistory(limit)

SpecHistory == InitConfig /\ [][NextHistory]_vars

(* Calls of start() and stop() in any order, and the timers firing. *)
NextTimer ==
    \/ \E i \in 1..MaxStarts : StartCall(i)
    \/ \E i \in 1..MaxStarts : StartContinue(i)
    \/ StopCall
    \/ \E t \in 1..MaxStarts : TimerFires(t)

SpecTimer == Init /\ [][NextTimer]_vars

(* The daemon started with the watch list [f], over an undisturbed        *)
(* filesystem, while a command-line process adds and removes watches.      *)
InitFollow ==
    /\ fsDirs = DirPaths
    /\ fsFiles = [p \in {FileA, FileF} |-> InitialStat]
    /\ watchList = <<FileF>>
    /\ persisted = watchList
    /\ fileStates = <<>>
    /\ cyc = [c \in Cycles |-> NoCycle]
    /\ started = 0
    /\ daemon = NewDaemon
    /\ ff = {}
    /\ fsChanges = 0
    /\ failures = 0
    /\ OthersIdle

NextFollow ==
    \/ Start
    \/ Tick
    \/ \E c \in Cycles, ok \in BOOLEAN : HealthResp(c, ok)
    \/ \E c \in Cycles, ok \in BOOLEAN : RegisterResp(c, ok)
    \/ daemon.phase /= "new" /\ CliStart(1)
    \/ \E filePath \in WatchPaths, ok \in BOOLEAN : addWatch(1, filePath, ok)
    \/ \E filePath \in WatchPaths, ok \in BOOLEAN : removeWatch(1, filePath, ok)

SpecFollow == InitFollow /\ [][NextFollow]_vars

(* The embedding queue under any calls of its methods. *)
NextQueue ==
    \/ \E filePath \in QueuePaths : Enqueue(filePath)
    \/ Pause
    \/ ResumeQueue
    \/ Clear
    \/ WaitForCompletion
    \/ \E item \in embeddingQueue.loops, ok \in BOOLEAN : ItemSettled(item, ok)

SpecQueue == Init /\ [][NextQueue]_vars

(* The same, where a processItem that is awaited settles in the end: the  *)
(* embedding is generated and the register call returns or fails.          *)
SpecQueueFair ==
    /\ SpecQueue
    /\ WF_vars(\E item \in embeddingQueue.loops, ok \in BOOLEAN : ItemSettled(item, ok))

(* The daemon over a watched directory of two files, while other programs *)
(* remove files.                                                           *)
InitVanish ==
    /\ fsDirs = DirPaths
    /\ fsFiles = [p \in FilePaths |-> InitialStat]
    /\ watchList = <<DirD, FileF>>
    /\ persisted = watchList
    /\ fileStates = <<>>
    /\ cyc = [c \in Cycles |-> NoCycle]
    /\ started = 0
    /\ daemon = NewDaemon
    /\ ff = {}
    /\ fsChanges = 0
    /\ failures = 0
    /\ OthersIdle

NextVanish ==
    \/ Start
    \/ Tick
    \/ \E c \in Cycles, ok \in BOOLEAN : HealthResp(c, ok)
    \/ \E c \in Cycles, ok \in BOOLEAN : RegisterResp(c, ok)
    \/ \E c \in Cycles, ok \in deleteFileByPath : DeleteResp(c, ok)
    \/ \E x \in ff, ok \in deleteFileByPath : CleanupDeleteResp(x, ok)
    \/ \E p \in FilePaths : UnlinkFile(p)

SpecVanish == InitVanish /\ [][NextVanish]_vars

(* The daemon while other programs modify the watched files. *)
NextWrite ==
    \/ Start
    \/ Tick
    \/ \E c \in Cycles, ok \in BOOLEAN : HealthResp(c, ok)
    \/ \E c \in Cycles, ok \in BOOLEAN : RegisterResp(c, ok)
    \/ \E p \in DOMAIN fsFiles, st \in Stat : WriteFile(p, st)

SpecWrite == Init /\ [][NextWrite]_vars

(* The life of the daemon process over an undisturbed filesystem: started *)
(* with or without a configuration, stopped by its owner, ended by a      *)
(* signal.                                                                 *)
InitLife ==
    /\ fsDirs = DirPaths
    /\ fsFiles = [p \in {FileA, FileF} |-> InitialStat]
    /\ watchList = <<DirD, FileF>>
    /\ persisted = watchList
    /\ fileStates = <<>>
    /\ cyc = [c \in Cycles |-> NoCycle]
    /\ started = 0
    /\ \E b \in BOOLEAN : daemon = [NewDaemon EXCEPT !.isInitialized = b]
    /\ ff = {}
    /\ fsChanges = 0
    /\ failures = 0
    /\ OthersIdle

NextLife ==
    \/ Start
    \/ Tick
    \/ \E c \in Cycles, ok \in BOOLEAN : HealthResp(c, ok)
    \/ \E c \in Cycles, ok \in BOOLEAN : RegisterResp(c, ok)
    \/ Stop
    \/ Signal

SpecLife == InitLife /\ [][NextLife]_vars

----------------------------------------------------------------------------
(* Notions used to state the properties. *)

(* what FileState holds for p, and what the disk holds for p *)
EntryOf(states, p) == IF MapHas(states, p) THEN Seen(MapGet(states, p)) ELSE Absent

DiskEntry(p) == IF p \in DOMAIN fsFiles THEN Seen(fsFiles[p]) ELSE Absent

(* This step is the resumption of cycle c at the settling of the promise  *)
(* it awaits.                                                              *)
Step(c) == Active(c) /\ started' = started /\ cyc'[c] /= cyc[c]

(* The cycle as that step leaves it, with the record of what it did. *)
Outcome(c) == Resume(c, failures' = failures).cy

(* the paths cycle c examines in the step that leaves it as out *)
Examined(c, out) == {p \in FilePaths : cyc[c].obs[p] = Unseen /\ out.obs[p] /= Unseen}

(* the files among them that it finds equal to, or different from, their  *)
(* FileState entries                                                       *)
FoundSame(c, out) ==
    {p \in Examined(c, out) :
        out.obs[p].kind = "present" /\ EntryOf(fileStates', p) = out.obs[p]}

FoundChanged(c, out) ==
    {p \in Examined(c, out) :
        out.obs[p].kind = "present" /\ EntryOf(fileStates', p) /= out.obs[p]}

(* the remote calls cycle c issues in that step *)
Registers(c, out) == {p \in FilePaths : out.reg[p] > cyc[c].reg[p]}

Deletes(c, out) == {p \in FilePaths : out.del[p] > cyc[c].del[p]}

(* the path whose remote call cycle c awaits *)
InFlight(c) ==
    IF cyc[c].pc = "register" THEN {cyc[c].cur.path}
    ELSE IF cyc[c].pc = "delete" THEN {cyc[c].keys[cyc[c].k]}
    ELSE {}

----------------------------------------------------------------------------
(* C1: a cycle whose healthCheck() returns false issues no register call  *)
(* and no delete call and leaves the FileState map as it was: the step    *)
(* that receives the answer ends the cycle, with no call awaited, no       *)
(* un-awaited delete added, and fileStates unchanged.                      *)
C1_HealthGate ==
    [][\A c \in Cycles :
          (Step(c) /\ cyc[c].pc = "probing" /\ failures' /= failures) =>
              \A out \in {Outcome(c)} :
              /\ fileStates' = fileStates
              /\ ff' = ff
              /\ cyc'[c].pc = "done"
              /\ ~cyc'[c].healthy
              /\ Registers(c, out) = {}
              /\ Deletes(c, out) = {}]_vars

(* A cycle has found the backend down while FileState had entries and a   *)
(* watched file differed from its entry.                                   *)
C1_Witness ==
    \E c \in Cycles :
        /\ cyc[c].pc = "done"
        /\ ~cyc[c].healthy
        /\ Len(fileStates) > 0
        /\ \E p \in FilePaths : EntryOf(fileStates, p) /= DiskEntry(p)

(* C2: in a healthy cycle a register call is issued for a file found      *)
(* under a watched path exactly when the file has no FileState entry or   *)
(* its mtime or size differs from the entry; a file equal to its entry    *)
(* causes no remote call.                                                  *)
C2_MinimalChangeDetection ==
    [][\A c \in Cycles : Step(c) =>
          \A out \in {Outcome(c)} :
          /\ Registers(c, out) \subseteq Examined(c, out)
          /\ \A p \in Examined(c, out) :
                out.obs[p].kind = "present" =>
                    /\ out.healthy
                    /\ out.obs[p] = DiskEntry(p)
                    /\ p \in Registers(c, out) <=> EntryOf(fileStates', p) /= DiskEntry(p)
                    /\ p \in Registers(c, out) =>
                          /\ out.reg[p] = cyc[c].reg[p] + 1
                          /\ cyc'[c].pc = "register"
                          /\ cyc'[c].cur.path = p
                    /\ p \notin Registers(c, out) =>
                          /\ p \notin Deletes(c, out)
                          /\ \A x \in ff' \ ff : x.path /= p]_vars

(* A cycle has examined d/a, found it equal to its entry and issued no    *)
(* call for it, and awaits the register of f, whose size alone changed.   *)
C2_Witness ==
    \E c \in Cycles :
        /\ cyc[c].pc = "register"
        /\ cyc[c].cur.path = FileF
        /\ MapHas(fileStates, FileF)
        /\ MapGet(fileStates, FileF).mtime = cyc[c].cur.mtime
        /\ MapGet(fileStates, FileF).size /= cyc[c].cur.size
        /\ cyc[c].obs[FileA] = EntryOf(fileStates, FileA)
        /\ cyc[c].obs[FileA].kind = "present"
        /\ cyc[c].reg[FileA] = 0
        /\ cyc[c].reg[FileF] = 1

(* C3: if a file is registered successfully in one cycle and is unchanged *)
(* at the next healthy cycle, the two cycles together issue exactly one   *)
(* register call for it: when the register of cycle c succeeds, cycle     *)
(* c + 1, if it has found the file with the same attributes, has issued   *)
(* no register for it; and a cycle that finds a file with the attributes  *)
(* stored by the last successful register issues none.                     *)
C3_RegisterIdempotence ==
    [][\A c \in Cycles : Step(c) =>
          \A out \in {Outcome(c)} :
          /\ (cyc[c].pc = "register" /\ failures' = failures /\ c + 1 \in Cycles) =>
                LET p == cyc[c].cur.path IN
                (cyc[c + 1].healthy /\ cyc[c + 1].obs[p] = cyc[c].obs[p]) =>
                    cyc[c + 1].reg[p] = 0
          /\ FoundSame(c, out) \cap Registers(c, out) = {}]_vars

(* C4: a rejected register leaves the FileState entry of its file as it   *)
(* was and does not stop the cycle: the files after it are still examined *)
(* (a cycle ends early only when a listed file has vanished), and each is  *)
(* registered when it differs from its entry; an accepted register sets    *)
(* the entry to the attributes the cycle observed.                         *)
C4_RegisterFailureIsolation ==
    [][\A c \in Cycles : Step(c) =>
          \A out \in {Outcome(c)} :
          /\ cyc[c].pc = "register" =>
                LET p == cyc[c].cur.path IN
                /\ failures' /= failures =>
                      /\ EntryOf(fileStates', p) = EntryOf(fileStates, p)
                      /\ p \in out.regFail
                /\ failures' = failures =>
                      /\ EntryOf(fileStates', p) = cyc[c].obs[p]
                      /\ p \in out.regOk
          /\ FoundChanged(c, out) \subseteq Registers(c, out)
          /\ (out.pc = "done" /\ out.healthy) =>
                IF out.aborted
                THEN \E p \in FilePaths : out.obs[p] = Unseen /\ p \notin DOMAIN fsFiles
                ELSE \A p \in FilePaths : out.obs[p] /= Unseen]_vars

(* The register of d/a has been rejected, d/a still differs from its      *)
(* entry, and the cycle has gone on to issue the register of f.            *)
C4_Witness ==
    \E c \in Cycles :
        /\ cyc[c].regFail = {FileA}
        /\ cyc[c].pc = "register"
        /\ cyc[c].cur.path = FileF
        /\ cyc[c].reg[FileF] = 1
        /\ EntryOf(fileStates, FileA) /= cyc[c].obs[FileA]

(* C5: a healthy cycle issues a delete call exactly for the paths that    *)
(* have a FileState entry and are not on disk, one call for each; it      *)
(* issues no call for a file equal to its entry; the entry is gone once   *)
(* the delete has succeeded.                                               *)
C5_DeleteOnDisappearance ==
    [][\A c \in Cycles : Step(c) =>
          \A out \in {Outcome(c)} :
          /\ \A p \in FilePaths :
                /\ out.del[p] <= 1
                /\ out.del[p] = 1 => out.obs[p] = Gone
                /\ p \in Deletes(c, out) => p \notin DOMAIN fsFiles
          /\ out.pc = "done" => \A p \in FilePaths : out.obs[p] = Gone => out.del[p] = 1
          /\ \A x \in ff' \ ff :
                x.cycle = c /\ x.path \in Deletes(c, out) /\ ~MapHas(fileStates', x.path)
          /\ (cyc[c].pc = "delete" /\ failures' = failures) =>
                ~MapHas(fileStates', cyc[c].keys[cyc[c].k])
          /\ FoundSame(c, out) \cap (Deletes(c, out) \cup Registers(c, out)) = {}]_vars

(* C6: a delete call that fails leaves the FileState entry of its path in *)
(* place, and an entry is removed only by the step in which the delete of *)
(* its path succeeds.                                                      *)
C6_FailedDeleteRetried ==
    [][/\ \A x \in ff \ ff' : failures' /= failures => MapHas(fileStates', x.path)
       /\ \A c \in Cycles :
             (Step(c) /\ cyc[c].pc = "delete" /\ failures' /= failures) =>
                 MapHas(fileStates', cyc[c].keys[cyc[c].k])
       /\ \A p \in KeySet(fileStates) \ KeySet(fileStates') :
             \E c \in Cycles :
                 /\ Step(c)
                 /\ cyc[c].pc = "delete"
                 /\ cyc[c].keys[cyc[c].k] = p
                 /\ failures' = failures]_vars

(* C7: once a watch entry has been removed, no FileState entry under it   *)
(* survives a healthy cycle that started after the removal.                *)
C7_DeleteOnUnwatch ==
    [][\A c \in Cycles : Step(c) =>
          \A out \in {Outcome(c)} :
          (out.pc = "done" /\ out.healthy /\ ~out.aborted) =>
              \A w \in out.unwatched : \A p \in KeySet(fileStates') :
                  p /= w /\ ~StartsWithSep(p, w)]_vars

(* C8: the first healthy cycle after an outage, when its remote calls     *)
(* succeed and the files are as it found them, ends with FileState        *)
(* holding exactly the files on disk with their current attributes.        *)
C8_ConsistentAfterOutage ==
    [][\A c \in Cycles : (Step(c) /\ c > 1) =>
          \A out \in {Outcome(c)} :
          (/\ out.pc = "done"
           /\ cyc[c - 1].pc = "done"
           /\ ~cyc[c - 1].healthy
           /\ out.healthy
           /\ out.regFail = {}
           /\ out.delFail = {}
           /\ \A x \in ff' : x.cycle /= c
           /\ \A p \in FilePaths :
                 /\ out.obs[p] /= Unseen
                 /\ out.obs[p].kind = "present" => out.obs[p] = DiskEntry(p)
                 /\ out.obs[p].kind /= "present" => p \notin DOMAIN fsFiles) =>
              \A p \in FilePaths : EntryOf(fileStates', p) = DiskEntry(p)]_vars

(* C9: at no time are two executions of syncOnce in progress together. *)
C9_SingleActiveCycle == Cardinality(ActiveCycles) <= 1

(* C10: a remote operation on a path issued by a later-started cycle does *)
(* not complete while an operation on the same path issued by an earlier- *)
(* started cycle is still in flight.                                       *)
C10_PerPathOrdering ==
    [][/\ \A d \in Cycles : Step(d) => \A p \in InFlight(d) :
             /\ \A c \in 1..(d - 1) : p \notin InFlight(c)
             /\ \A x \in ff : x.path = p => x.cycle >= d
       /\ \A y \in ff \ ff' :
             /\ \A c \in 1..(y.cycle - 1) : y.path \notin InFlight(c)
             /\ \A x \in ff : x.path = y.path => x.cycle >= y.cycle]_vars

(* C11: when an execution of syncOnce has returned, no remote call that   *)
(* it started is still in flight: every register and delete call a cycle  *)
(* issued has settled before the cycle is finished.                        *)
C11_CompletionAfterCalls == \A x \in ff : cyc[x.cycle].pc /= "done"

(* C12: no exception escapes a cycle.  Whatever the health check, the     *)
(* filesystem, the register calls and the delete calls raise, the promise *)
(* of syncOnce is never rejected, and no rejection is left unhandled by   *)
(* the daemon.                                                             *)
C12_NoExceptionEscapes ==
    /\ ~daemon.unhandled
    /\ \A c \in Cycles : cyc[c].pc /= "rejected"

(* a cycle has ended in the catch block of syncOnce, after a remote call  *)
(* had failed as well                                                      *)
C12_Witness ==
    \E c \in Cycles : cyc[c].pc = "done" /\ cyc[c].aborted /\ failures > 0

(* C13: a file whose attributes cannot be read stops only its own         *)
(* processing.  When a healthy cycle returns, it has examined every file  *)
(* that is on disk under the watched paths, whatever became of the other  *)
(* files while it ran.                                                     *)
C13_FilesystemErrorIsolation ==
    [][\A c \in Cycles :
          (Step(c) /\ cyc'[c].pc = "done" /\ cyc'[c].healthy) =>
              \A out \in {Outcome(c)} :
                 \A p \in DOMAIN fsFiles : out.obs[p] /= Unseen]_vars

(* C14: the FileState map starts empty, and an entry for a path is        *)
(* inserted or changed only by the step at which a register call for that *)
(* path completes successfully; the entry then holds the mtime and size   *)
(* observed by the step that issued that call.  A register call that      *)
(* fails inserts and changes nothing.                                      *)
C14_FileStateInvariant ==
    [][/\ \A p \in FilePaths :
             (EntryOf(fileStates', p) /= Absent
              /\ EntryOf(fileStates', p) /= EntryOf(fileStates, p)) =>
                 \E c \in Cycles :
                    /\ Step(c)
                    /\ cyc[c].pc = "register"
                    /\ cyc[c].cur.path = p
                    /\ failures' = failures
                    /\ EntryOf(fileStates', p) = Seen(cyc[c].cur)
       /\ \A c \in Cycles :
             (Step(c) /\ cyc[c].pc = "register" /\ failures' = failures) =>
                 EntryOf(fileStates', cyc[c].cur.path) \in {Seen(cyc[c].cur), Absent}]_vars

(* an entry holds the attributes of a modified file, after a register     *)
(* call has failed and a second cycle has been started                    *)
C14_Witness ==
    /\ failures > 0
    /\ started >= 2
    /\ \E p \in FilePaths :
          /\ EntryOf(fileStates, p) /= Absent
          /\ EntryOf(fileStates, p) /= Seen(InitialStat)
          /\ EntryOf(fileStates, p) = DiskEntry(p)

(* "stop() has been called": start() sets isRunning (line 35) and only   *)
(* stop() clears it.                                                       *)
StopCalled == daemon.phase \in {"initial", "started"} /\ ~daemon.isRunning

(* C15: start() runs one cycle at once and then one per tick until stop() *)
(* is called; once stop() has been called no execution of syncOnce is     *)
(* started any more, also when stop() is called while the initial cycle   *)
(* of start() is in progress.                                              *)
C15_NoCycleAfterStop ==
    [][/\ (daemon.phase = "new" /\ daemon.isInitialized /\ daemon'.phase /= "new") =>
             (started' = 1 /\ cyc'[1].pc = "probing")
       /\ StopCalled => started' = started]_vars

(* C16: start() on a daemon without configuration fails: the promise it   *)
(* returned is rejected (the error reaches the caller), no call of        *)
(* syncOnce is made, no timer is installed and the daemon is not running. *)
C16_StartWithoutConfiguration ==
    (~daemon.isInitialized /\ daemon.phase /= "new") =>
        /\ daemon.startPromise = "rejected"
        /\ started = 0
        /\ \A c \in Cycles : cyc[c].pc = "none"
        /\ ~daemon.intervalId
        /\ ~daemon.isRunning

(* C17: stop() is idempotent and does not interrupt.  Whatever state the  *)
(* daemon is in, a second stop() changes nothing after the first, which   *)
(* leaves no timer and a daemon that is not running; on a daemon that was *)
(* never started stop() changes nothing at all.  A call of stop() leaves  *)
(* the cycles in progress, the FileState map and the calls in flight as   *)
(* they are; a cycle in progress after stop() can still go on, and a      *)
(* register call of it that succeeds then still stores its entry.           *)
C17_StopIdempotentNonInterrupting ==
    /\ [](/\ stop(stop(daemon)) = stop(daemon)
          /\ ~stop(daemon).intervalId
          /\ ~stop(daemon).isRunning
          /\ daemon.phase = "new" => stop(daemon) = daemon
          /\ \A c \in Cycles :
                (Active(c) /\ StopCalled /\ ~daemon.exited) =>
                    ENABLED (HealthResp(c, TRUE) \/ RegisterResp(c, TRUE)))
    /\ [][/\ (daemon' /= daemon /\ daemon'.phase = daemon.phase
                              /\ daemon'.exited = daemon.exited /\ cyc' = cyc) =>
                 /\ daemon' = stop(daemon)
                 /\ fileStates' = fileStates
                 /\ ff' = ff
                 /\ started' = started
           /\ \A c \in Cycles :
                 (Step(c) /\ StopCalled /\ cyc[c].pc = "register"
                          /\ failures' = failures) =>
                     EntryOf(fileStates', cyc[c].cur.path) = Seen(cyc[c].cur)]_vars

(* stop() has been called during the initial cycle of start(), which is   *)
(* still in progress and has stored the entry of d/a                      *)
C17_Witness ==
    /\ daemon.phase = "initial"
    /\ ~daemon.isRunning
    /\ cyc[1].pc = "register"
    /\ cyc[1].cur.path = FileF
    /\ EntryOf(fileStates, FileA) = DiskEntry(FileA)

(* C18: on SIGINT or SIGTERM the process exits only when the remote calls *)
(* in flight have finished: at the exit no execution of syncOnce awaits a *)
(* call and no delete call is pending.                                     *)
C18_GracefulShutdown ==
    [][(daemon'.exited /\ ~daemon.exited) =>
          /\ ~daemon'.intervalId
          /\ ~daemon'.isRunning
          /\ \A c \in Cycles : cyc[c].pc \notin {"register", "delete"}
          /\ ff = {}]_vars

(* C19: the schedule survives remote unavailability.  Once the initial    *)
(* cycle of start() has returned, and as long as stop() has not been      *)
(* called, the timer is installed and a tick can start a cycle, however   *)
(* many health checks and calls have failed; every tick starts a cycle;   *)
(* and a cycle whose health check succeeds goes on to examine the watched *)
(* paths, whatever failed before.                                          *)
C19_ScheduleSurvivesOutage ==
    /\ []((cyc[1].pc = "done" /\ daemon.isRunning) =>
             /\ daemon.intervalId
             /\ daemon.startPromise = "fulfilled"
             /\ started < MaxCycles => ENABLED Tick)
    /\ [][/\ started' /= started =>
                 (started' = started + 1 /\ cyc'[started'].pc = "probing")
           /\ \A c \in Cycles :
                 (Step(c) /\ cyc[c].pc = "probing" /\ failures' = failures) =>
                     \A out \in {Outcome(c)} :
                        /\ out.healthy
                        /\ \A p \in DOMAIN fsFiles : out.pc = "done" => out.obs[p] /= Unseen
                        /\ Examined(c, out) /= {}]_vars

(* after an initial cycle skipped for a failed health check, the timer is *)
(* installed and a later cycle has passed the health check                *)
C19_Witness ==
    /\ cyc[1].pc = "done"
    /\ ~cyc[1].healthy
    /\ failures = MaxFailures
    /\ daemon.isRunning
    /\ daemon.intervalId
    /\ \E c \in Cycles : cyc[c].healthy

(* C20: the FileState map is empty when the daemon is created, so the     *)
(* first healthy cycle (every cycle started before it was skipped) has,   *)
(* when it returns, issued exactly one register call for every file under *)
(* the watched paths and no delete call.                                   *)
C20_RestartRegistersEverything ==
    /\ [](daemon.phase = "new" => fileStates = <<>>)
    /\ [][\A c \in Cycles :
             (/\ Step(c)
              /\ cyc'[c].pc = "done"
              /\ cyc'[c].healthy
              /\ \A d \in 1..(c - 1) : cyc[d].pc = "done" /\ ~cyc[d].healthy) =>
                 \A out \in {Outcome(c)} :
                    /\ \A p \in DOMAIN fsFiles : out.reg[p] = 1
                    /\ \A p \in FilePaths : out.del[p] = 0]_vars

----------------------------------------------------------------------------
(* The watch list of the command-line processes. *)

(* At most one entry per absolute path. *)
NoDuplicates(list) == \A i, j \in 1..Len(list) : list[i] = list[j] => i = j

C27_NoLostUpdate ==
    [][\A x \in WatchPaths :
          /\ (x \in Range(persisted) /\ x \notin Range(persisted')) =>
                 \/ \E p \in Procs, ok \in BOOLEAN : removeWatch(p, x, ok)
                 \/ \E p \in Procs : clearWatchList(p)
          /\ (x \notin Range(persisted) /\ x \in Range(persisted')) =>
                 \E p \in Procs, ok \in BOOLEAN : addWatch(p, x, ok)]_vars

----------------------------------------------------------------------------
(* The configuration of the settings, device and sync commands. *)

(* C23: a reset restores the settings to their default values and leaves  *)
(* the watch list and the device list as they were, in memory and in the  *)
(* configuration file.                                                     *)
C23_ResetKeepsUserData ==
    [][reset =>
          /\ TheConfig'.settings = DefaultConfig.settings
          /\ TheConfig'.watchList = TheConfig.watchList
          /\ TheConfig'.devices = TheConfig.devices
          /\ configFile' = [exists |-> TRUE, content |-> TheConfig']]_vars

(* C24: the stored sync history has at most 50 entries, newest first, and *)
(* they are the most recently added ones without a gap; the history       *)
(* command with limit n gets the n newest entries (all of them when fewer *)
(* than n are stored).                                                     *)
C24_BoundedSyncHistory ==
    /\ [](configManager.phase = "up" =>
            \A h \in {TheConfig.syncHistory} :
                /\ Len(h) <= 50
                /\ Len(h) = (IF Timestamp(h) < 50 THEN Timestamp(h) ELSE 50)
                /\ \A i \in 1..Len(h) : h[i] = Timestamp(h) - (i - 1)
                /\ configFile.content.syncHistory = h)
    /\ [][\A limit \in 0..MaxLimit :
            syncHistory(limit) =>
                \A h \in {TheConfig.syncHistory} :
                    /\ Len(configManager'.shown) =
                           (IF limit < Len(h) THEN limit ELSE Len(h))
                    /\ \A i \in 1..Len(configManager'.shown) :
                           configManager'.shown[i] = h[i]]_vars

----------------------------------------------------------------------------
(* The timers of the daemon. *)

(* C25: whatever calls of start() and stop() are made on one daemon, at   *)
(* most one interval timer is active at any time, and a stop() called     *)
(* when every call of start() made so far has returned leaves no timer    *)
(* active.                                                                 *)
C25_AtMostOneTimer ==
    /\ [](Cardinality(scheduler.timers) <= 1)
    /\ [][(StopCall /\ \A i \in 1..MaxStarts : scheduler.calls[i] /= "awaiting")
              => scheduler'.timers = {}]_vars

----------------------------------------------------------------------------
(* The daemon and the watch commands. *)

(* The paths the watch entry w covers. *)
Under(w) == {p \in FilePaths : p = w \/ StartsWithSep(p, w)}

(* C26: the running daemon follows the watch list in the configuration    *)
(* file.  A healthy cycle that runs to its end has examined every file on *)
(* disk under an entry that was added to the file before the cycle        *)
(* started, and has examined no file that only an entry removed from the  *)
(* file before the cycle started covers.                                   *)
C26_DaemonFollowsWatchList ==
    [][\A c \in Cycles : Step(c) =>
          \A out \in {Outcome(c)} :
          (out.pc = "done" /\ out.healthy /\ ~out.aborted) =>
              /\ \A w \in out.added : \A p \in Under(w) \cap DOMAIN fsFiles :
                     out.obs[p] /= Unseen
              /\ \A w \in out.unwatched : \A p \in Under(w) :
                     (\A v \in (Range(watchList) \ out.unwatched) \cup out.added :
                          p \notin Under(v))
                         => out.obs[p] = Unseen]_vars

----------------------------------------------------------------------------
(* The embedding queue. *)

(* C28: under any calls of enqueue, pause, resume and clear and any       *)
(* settling of the items, at most one execution of processQueue is in its *)
(* loop, so at most one item is being processed, and it is being          *)
(* processed only while processing is set; no item starts being processed *)
(* in a step that leaves the queue paused.  An item in progress when      *)
(* pause is called stays in progress.                                      *)
C28_SingleWorker ==
    /\ [](/\ Cardinality(embeddingQueue.loops) <= 1
          /\ embeddingQueue.processing = (embeddingQueue.loops /= {}))
    /\ [][/\ (embeddingQueue.loops' \ embeddingQueue.loops /= {}) =>
                 ~embeddingQueue'.paused
          /\ Pause => embeddingQueue.loops' = embeddingQueue.loops]_vars

(* The queue has been paused while an item was in progress and another    *)
(* was waiting; the item in progress has settled and no other has started. *)
C28_Witness ==
    /\ embeddingQueue.paused
    /\ embeddingQueue.loops = {}
    /\ Len(embeddingQueue.queue) > 0
    /\ \E id \in Ids : embeddingQueue.processed[id] = 1

(* Item id is in the queue, is being processed. *)
InQueue(id) == \E i \in 1..Len(embeddingQueue.queue) : embeddingQueue.queue[i].id = id

InProgress(id) == \E item \in embeddingQueue.loops : item.id = id

(* C29: an item is attempted at most maxRetries + 1 = 4 times.  When an   *)
(* attempt succeeds 'item-processed' is emitted for the item and it is    *)
(* not in the queue; when the fourth attempt fails 'item-failed' is       *)
(* emitted for it and it is not in the queue; an earlier failed attempt   *)
(* emits nothing and leaves it in the queue (or in progress again) with   *)
(* one retry more.  At most one of the two events is ever emitted for an  *)
(* item, once, and afterwards the item is neither queued nor in progress. *)
(* While the queue is not paused and holds an item, an item is in         *)
(* progress; and an item that is queued or in progress while the queue is *)
(* not paused leaves the queue for good, unless the queue is paused.       *)
C29_BoundedRetry ==
    /\ [](\A id \in Ids :
            /\ embeddingQueue.attempts[id] <= 4
            /\ embeddingQueue.processed[id] + embeddingQueue.failed[id] <= 1
            /\ embeddingQueue.failed[id] = 1 => embeddingQueue.attempts[id] = 4
            /\ embeddingQueue.processed[id] + embeddingQueue.failed[id] = 1 =>
                   ~InQueue(id) /\ ~InProgress(id))
    /\ []((~embeddingQueue.paused /\ Len(embeddingQueue.queue) > 0) =>
              embeddingQueue.loops /= {})
    /\ [][\A item \in embeddingQueue.loops, ok \in BOOLEAN :
            ItemSettled(item, ok) =>
                /\ ok => /\ embeddingQueue'.processed[item.id] = 1
                         /\ ~InQueue(item.id)'
                /\ (~ok /\ embeddingQueue.attempts[item.id] = 4) =>
                         /\ embeddingQueue'.failed[item.id] = 1
                         /\ ~InQueue(item.id)'
                /\ (~ok /\ embeddingQueue.attempts[item.id] < 4) =>
                         /\ embeddingQueue'.failed = embeddingQueue.failed
                         /\ embeddingQueue'.processed = embeddingQueue.processed
                         /\ [item EXCEPT !.retries = @ + 1] \in
                                Range(embeddingQueue'.queue) \cup embeddingQueue'.loops]_vars
    /\ \A id \in Ids :
           ((InQueue(id) \/ InProgress(id)) /\ ~embeddingQueue.paused)
               ~> ((~InQueue(id) /\ ~InProgress(id)) \/ embeddingQueue.paused)

(* An item has failed four times and 'item-failed' has been emitted for   *)
(* it, another has been processed at its second attempt.                   *)
C29_Witness ==
    \E id, other \in Ids :
        /\ embeddingQueue.failed[id] = 1
        /\ embeddingQueue.attempts[id] = 4
        /\ embeddingQueue.processed[other] = 1
        /\ embeddingQueue.attempts[other] = 2

(* C30: a promise of waitForCompletion is not left pending once the queue *)
(* is not processing and empty, however that state is reached; and it is  *)
(* resolved only when no item is in progress and none is queued.           *)
C30_WaitForCompletion ==
    /\ [](embeddingQueue.waiter = "pending" =>
              (embeddingQueue.processing \/ Len(embeddingQueue.queue) > 0))
    /\ [][(embeddingQueue.waiter = "pending" /\ embeddingQueue'.waiter = "resolved") =>
              (embeddingQueue'.loops = {} /\ Len(embeddingQueue'.queue) = 0)]_vars

====
